---- MODULE Spec2Model ----
(***************************************************************************)
(* Model of the pstore parameter-store client (package pstore) and of the  *)
(* remote parameter service it talks to through AdapterAPI.                *)
(*                                                                         *)
(* Strings that the code inspects character by character (keys, paths) are *)
(* sequences of one-character strings; values are opaque strings.  An      *)
(* error is the chain of its layers, outermost first; the nil error is the *)
(* empty chain.                                                            *)
(*                                                                         *)
(* The module also models the LambdaTrigger conversion of package sls      *)
(* (variable lt), which shares nothing with the client.                    *)
(***************************************************************************)
EXTENDS Integers, Sequences, FiniteSets, TLC

VARIABLES store, cl, lt

vars == <<store, cl, lt>>

(***************************************************************************)
(* Bounds of the model.                                                    *)
(***************************************************************************)
NumKeys == 2
MaxPageLen == 2

(***************************************************************************)
(* Data.                                                                   *)
(***************************************************************************)
\* a nil pointer (*string, *Parameter, *NextToken)
Nil == "<nil>"
\* the store's marker for a name it does not hold
Absent == "<absent>"
\* the nil error
NoErr == <<>>

KeyUniverse ==
    << <<"/", "a", "/", "a">>, <<"/", "a", "/", "b">>, <<"/", "b">>,
       <<"/", "a", "/", "b", "/", "a">>, <<"/", "a", "/", "c">> >>

KeyIdx == 1..NumKeys
Keys == {KeyUniverse[i] : i \in KeyIdx}
EmptyKey == <<>>
InputKeys == Keys \cup {EmptyKey}

Values == {"", "a", "b"}
StoredValues == Values \cup {Nil}

\* the variadic overwrite ...bool argument: omitted, false or true
OverwriteArgs == {<<>>, <<FALSE>>, <<TRUE>>}
\* the variadic recursive ...bool argument
RecursiveArgs == {<<>>, <<FALSE>>, <<TRUE>>}

PathArgs == {<<>>, <<"a">>, <<"/", "a">>, <<"/">>}

\* the keys ...string argument of Collect
KeyLists ==
    {<<>>} \cup {<<k>> : k \in Keys} \cup {<<j, k>> : j \in Keys, k \in Keys}

Clients == {"c1", "c2"}
Solo == {"c1"}

\* failures of the remote that are not about the parameter itself
RemoteFaults == {"InternalServerError"}

Range(s) == {s[i] : i \in 1..Len(s)}

Min(a, b) == IF a < b THEN a ELSE b

\* strings.HasPrefix
HasPrefix(s, prefix) ==
    Len(s) >= Len(prefix) /\ SubSeq(s, 1, Len(prefix)) = prefix

(***************************************************************************)
(* The failure library, as the client uses it: an error kind is a sentinel *)
(* in the chain.  Wrap adds a message layer and keeps the chain; the To... *)
(* constructors start a new chain of their kind around the cause's text.   *)
(***************************************************************************)
failureSystem(msg) == <<msg, "System">>

failureToSystem(err, msg) == <<msg, "System">>

failureToNotFound(err, msg) == <<msg, "NotFound">>

failureWrap(err, msg) == <<msg>> \o err

failureIsNotFound(err) == "NotFound" \in Range(err)

failureIsSystem(err) == "System" \in Range(err)

\* the kinds Conflict and InvalidInput: no call of the client constructs them
failureIsConflict(err) == "Conflict" \in Range(err)

failureIsInvalidInput(err) == "InvalidInput" \in Range(err)

\* errors.As(err, &pne) with pne *types.ParameterNotFound
IsParameterNotFound(err) == "ParameterNotFound" \in Range(err)

\* handleAPIError without the ParameterNotFound case
handleAPIError_AlwaysSystem(err, msg) ==
    IF err = NoErr THEN NoErr ELSE failureToSystem(err, msg)

handleAPIError(err, msg) ==
    IF err = NoErr THEN NoErr
    ELSE IF IsParameterNotFound(err) THEN failureToNotFound(err, msg)
    ELSE failureToSystem(err, msg)

(***************************************************************************)
(* The remote parameter service behind AdapterAPI.  Every request may fail *)
(* with a fault; otherwise it answers from the store.                      *)
(***************************************************************************)
\* a request the client issued, with the reply it got
Request(api, name, arg, out) == [api |-> api, name |-> name, arg |-> arg, out |-> out]

FaultReplies == {[err |-> <<f>>, value |-> Nil] : f \in RemoteFaults}

GetParameterReplies(name) ==
    FaultReplies \cup
    { IF store[name] = Absent
      THEN [err |-> <<"ParameterNotFound">>, value |-> Nil]
      ELSE [err |-> NoErr, value |-> store[name]] }

DeleteParameterReplies(name) ==
    FaultReplies \cup
    { IF store[name] = Absent
      THEN [err |-> <<"ParameterNotFound">>, value |-> Nil]
      ELSE [err |-> NoErr, value |-> Nil] }

PutParameterReplies(name, isOverwrite) ==
    FaultReplies \cup
    { IF store[name] # Absent /\ ~isOverwrite
      THEN [err |-> <<"ParameterAlreadyExists">>, value |-> Nil]
      ELSE [err |-> NoErr, value |-> Nil] }

\* the names the service holds under a path: below the path's hierarchy level,
\* and exactly one level below it when the request is not recursive
PathBase(path) == IF path[Len(path)] = "/" THEN path ELSE path \o <<"/">>

Under(path, name, isRecursive) ==
    LET base == PathBase(path)
    IN /\ HasPrefix(name, base)
       /\ Len(name) > Len(base)
       /\ isRecursive \/ "/" \notin Range(SubSeq(name, Len(base) + 1, Len(name)))

KeysInOrder == [i \in KeyIdx |-> KeyUniverse[i]]

ParameterOf(name) == [Name |-> name, Value |-> store[name]]

Matching(path, isRecursive) ==
    LET held(k) == store[k] # Absent /\ Under(path, k, isRecursive)
        names == SelectSeq(KeysInOrder, held)
    IN [i \in 1..Len(names) |-> ParameterOf(names[i])]

\* a page of 1..MaxPageLen parameters from the offset the token names, with
\* the token of the next page when parameters remain
GetParametersByPathReplies(path, isRecursive, nextToken) ==
    {[err |-> <<f>>, Parameters |-> <<>>, NextToken |-> <<>>] : f \in RemoteFaults}
    \cup
    IF ~HasPrefix(path, <<"/">>)
    THEN {[err |-> <<"ValidationException">>, Parameters |-> <<>>, NextToken |-> <<>>]}
    ELSE LET all == Matching(path, isRecursive)
             off == IF nextToken = <<>> THEN 0 ELSE nextToken[1]
         IN {[err |-> NoErr,
              Parameters |-> SubSeq(all, off + 1, Min(off + n, Len(all))),
              NextToken |-> IF off + n < Len(all) THEN <<off + n>> ELSE <<>>]
             : n \in 1..MaxPageLen}

GetParametersReplies(names) ==
    {[err |-> <<f>>, Parameters |-> <<>>, InvalidParameters |-> <<>>] : f \in RemoteFaults}
    \cup
    LET held(k) == k \in Range(names) /\ store[k] # Absent
        known == SelectSeq(KeysInOrder, held)
        unknown(k) == store[k] = Absent
    IN {[err |-> NoErr,
         Parameters |-> [i \in 1..Len(known) |-> ParameterOf(known[i])],
         InvalidParameters |-> SelectSeq(names, unknown)]}

(***************************************************************************)
(* Client state: one call at a time per client.                            *)
(***************************************************************************)
Resting == {"idle", "done", "panic"}

\* a Go map[string]string, as a function on the keys it holds
EmptyMap == [k \in {} |-> ""]

MapSet(m, k, v) == [x \in DOMAIN m \cup {k} |-> IF x = k THEN v ELSE m[x]]

IdleCall ==
    [op |-> "none", pc |-> "idle", key |-> EmptyKey, value |-> "",
     overwrite |-> <<>>, old |-> "", result |-> "", err |-> NoErr,
     pathArg |-> <<>>, path |-> <<>>, recursive |-> <<>>, firstPage |-> FALSE, nextToken |-> <<>>,
     errs |-> <<>>, keys |-> <<>>, resmap |-> EmptyMap, invalid |-> <<>>,
     reqs |-> <<>>]

\* no conversion made yet
NoConversion == [called |-> FALSE, s |-> <<>>, t |-> <<>>, err |-> NoErr]

Init ==
    /\ store \in [Keys -> StoredValues \cup {Absent}]
    /\ cl = [c \in Clients |-> IdleCall]
    /\ lt = NoConversion

\* the state of a call that has returned (result, err)
Returned(call, result, err) ==
    [call EXCEPT !.pc = "done", !.result = result, !.err = err]

(***************************************************************************)
(* Param: rsp is the remote's reply to GetParameter (unused when the key   *)
(* is empty, since no request is issued).                                  *)
(***************************************************************************)
ParamReplies(key) ==
    IF key = EmptyKey THEN {[err |-> NoErr, value |-> Nil]}
    ELSE GetParameterReplies(key)

Param(key, rsp) ==
    IF key = EmptyKey
    THEN [result |-> "",
          err |-> failureSystem("key is empty, a non empty key is required"),
          reqs |-> <<>>]
    ELSE IF rsp.err # NoErr
    THEN [result |-> "",
          err |-> handleAPIError(rsp.err, "c.api.GetParameter failed"),
          reqs |-> <<Request("GetParameter", key, <<>>, rsp)>>]
    ELSE [result |-> IF rsp.value # Nil THEN rsp.value ELSE "",
          err |-> NoErr,
          reqs |-> <<Request("GetParameter", key, <<>>, rsp)>>]

ParamCall(c, key) ==
    /\ cl[c].pc \in Resting
    /\ \E rsp \in ParamReplies(key) :
         LET p == Param(key, rsp)
         IN cl' = [cl EXCEPT ![c] =
                      Returned([IdleCall EXCEPT !.op = "Param", !.key = key,
                                                !.reqs = p.reqs],
                               p.result, p.err)]
    /\ UNCHANGED store

(***************************************************************************)
(* Delete: the read (Param), then the DeleteParameter request.             *)
(***************************************************************************)
\* Delete reclassifying the read's error instead of wrapping it
DeleteReadError_ToSystem(err) == failureToSystem(err, "c.Param failed")

DeleteReadError(err) == failureWrap(err, "c.Param failed")

DeleteCall(c, key) ==
    /\ cl[c].pc \in Resting
    /\ \E rsp \in ParamReplies(key) :
         LET p == Param(key, rsp)
             call == [IdleCall EXCEPT !.op = "Delete", !.key = key,
                                      !.old = p.result, !.reqs = p.reqs]
         IN cl' = [cl EXCEPT ![c] =
                      IF p.err # NoErr
                      THEN Returned(call, p.result, DeleteReadError(p.err))
                      ELSE [call EXCEPT !.pc = "delete"]]
    /\ UNCHANGED store

\* Delete returning the zero value of its result instead of the value read
DeleteReturn_ZeroValue(call) == Returned(call, "", NoErr)

DeleteReturn(call) == Returned(call, call.old, NoErr)

DeleteStep(c) ==
    /\ cl[c].pc = "delete"
    /\ \E rsp \in DeleteParameterReplies(cl[c].key) :
         LET call == [cl[c] EXCEPT !.reqs =
                         Append(@, Request("DeleteParameter", cl[c].key, <<>>,
                                           rsp))]
         IN IF rsp.err # NoErr
            THEN /\ cl' = [cl EXCEPT ![c] =
                             Returned(call, cl[c].old,
                                 failureToSystem(rsp.err,
                                     "c.api.DeleteParameter failed"))]
                 /\ UNCHANGED store
            ELSE /\ cl' = [cl EXCEPT ![c] = DeleteReturn(call)]
                 /\ store' = [store EXCEPT ![cl[c].key] = Absent]

(***************************************************************************)
(* Put: the existence read (Param) and the checks on it, then the          *)
(* PutParameter request.                                                   *)
(***************************************************************************)
\* the overwrite flag read past the first variadic argument
IsOverwrite_OffByOne(overwrite) == Len(overwrite) > 1 /\ overwrite[2] = TRUE

IsOverwrite(overwrite) == Len(overwrite) > 0 /\ overwrite[1] = TRUE

\* the exception for NotFound inverted: only a NotFound read ends the call
PutReadFailed_Inverted(err) == err # NoErr /\ failureIsNotFound(err)

\* Put treating a NotFound read like any other failed read
PutReadFailed_AnyError(err) == err # NoErr

\* the read failed with something other than NotFound
PutReadFailed(err) == err # NoErr /\ ~failureIsNotFound(err)

\* Put without the early return for an unchanged value
PutNothingToDo_Skipped(err, old, value) == FALSE

\* "if we found something and the values are the same, then nothing to do"
PutNothingToDo(err, old, value) == ~failureIsNotFound(err) /\ old = value

\* the guard of "param exists but overwrite is false"
PutExistsNoOverwrite(isOverwrite, old) == isOverwrite = FALSE /\ old # ""

PutExistsError(key) == failureSystem("param exists but overwrite is false")

PutCall(c, key, value, overwrite) ==
    /\ cl[c].pc \in Resting
    /\ \E rsp \in ParamReplies(key) :
         LET p == Param(key, rsp)
             old == p.result
             call == [IdleCall EXCEPT !.op = "Put", !.key = key,
                                      !.value = value, !.overwrite = overwrite,
                                      !.old = old, !.reqs = p.reqs]
         IN cl' = [cl EXCEPT ![c] =
                      IF PutReadFailed(p.err)
                      THEN Returned(call, old, failureWrap(p.err, "c.Param failed"))
                      ELSE IF PutNothingToDo(p.err, old, value)
                      THEN Returned(call, old, NoErr)
                      ELSE IF PutExistsNoOverwrite(IsOverwrite(overwrite), old)
                      THEN Returned(call, old, PutExistsError(key))
                      ELSE [call EXCEPT !.pc = "write"]]
    /\ UNCHANGED store

\* the write sent with Overwrite set whatever the caller asked
PutInputOverwrite_AlwaysTrue(isOverwrite) == TRUE

\* ssm.PutParameterInput.Overwrite
PutInputOverwrite(isOverwrite) == isOverwrite

\* Put returning the value it wrote instead of the value it read
PutReturn_NewValue(call) == Returned(call, call.value, NoErr)

PutReturn(call) == Returned(call, call.old, NoErr)

PutStep(c) ==
    /\ cl[c].pc = "write"
    /\ LET isOverwrite == PutInputOverwrite(IsOverwrite(cl[c].overwrite))
       IN \E rsp \in PutParameterReplies(cl[c].key, isOverwrite) :
            LET call == [cl[c] EXCEPT !.reqs =
                            Append(@, Request("PutParameter", cl[c].key,
                                              <<cl[c].value, isOverwrite>>, rsp))]
            IN IF rsp.err # NoErr
               THEN /\ cl' = [cl EXCEPT ![c] =
                                Returned(call, cl[c].old,
                                    failureToSystem(rsp.err,
                                        "c.api.PutParameterWithContext failed"))]
                    /\ UNCHANGED store
               ELSE /\ cl' = [cl EXCEPT ![c] = PutReturn(call)]
                    /\ store' = [store EXCEPT ![cl[c].key] = cl[c].value]

(***************************************************************************)
(* Path: the paginator of GetParametersByPath and the loop over its pages. *)
(***************************************************************************)
\* the separator added without looking at the path
EnsurePathPrefix_AlwaysAdds(path) == <<"/">> \o path

EnsurePathPrefix(path) ==
    IF ~HasPrefix(path, <<"/">>) THEN <<"/">> \o path ELSE path

IsRecursive(recursive) == ~(Len(recursive) > 0 /\ recursive[1] = FALSE)

\* result[*p.Name] = *p.Value for every parameter with both set
RECURSIVE Collected(_, _)
Collected(result, parameters) ==
    IF parameters = <<>> THEN result
    ELSE LET p == Head(parameters)
         IN Collected(IF p.Name = Nil \/ p.Value = Nil THEN result
                      ELSE MapSet(result, p.Name, p.Value),
                      Tail(parameters))

\* the loop written as an if: one page is fetched, the token is never asked
HasMorePages_FirstPageOnly(call) == call.firstPage

HasMorePages(call) == call.firstPage \/ call.nextToken # <<>>

\* the request log never outgrows the pages a store of NumKeys names can have
MaxReqs == NumKeys + 2

\* the loop going on to its next iteration after a failed NextPage, as it
\* would with a nil check on out
PathPageFailed_Continue(call, err) ==
    [call EXCEPT !.errs = Append(@, failureWrap(err, "pager.NextPage failed"))]

\* NextPage returned (nil, err): the error is appended to errs, then
\* out.Parameters dereferences the nil out
PathPageFailed(call, err) ==
    [call EXCEPT !.pc = "panic",
                 !.errs = Append(@, failureWrap(err, "pager.NextPage failed"))]

PathPageFetched(call, out) ==
    [call EXCEPT !.firstPage = FALSE, !.nextToken = out.NextToken,
                 !.resmap = Collected(@, out.Parameters)]

PathReturn(call) == [call EXCEPT !.pc = "done", !.err = NoErr]

PathCall(c, path, recursive) ==
    /\ cl[c].pc \in Resting
    /\ LET call == [IdleCall EXCEPT !.op = "Path", !.pathArg = path,
                                    !.path = path, !.recursive = recursive]
       IN cl' = [cl EXCEPT ![c] =
                    IF path = <<>>
                    THEN Returned(call, "", failureSystem("path is empty"))
                    ELSE [call EXCEPT !.pc = "paging",
                                      !.path = EnsurePathPrefix(path),
                                      !.firstPage = TRUE]]
    /\ UNCHANGED store

PathLoop(c) ==
    /\ cl[c].pc = "paging"
    /\ Len(cl[c].reqs) < MaxReqs
    /\ IF ~HasMorePages(cl[c])
       THEN cl' = [cl EXCEPT ![c] = PathReturn(cl[c])]
       ELSE \E out \in GetParametersByPathReplies(cl[c].path,
                           IsRecursive(cl[c].recursive), cl[c].nextToken) :
              LET call == [cl[c] EXCEPT !.reqs =
                              Append(@, Request("GetParametersByPath", cl[c].path,
                                                cl[c].nextToken, out))]
              IN cl' = [cl EXCEPT ![c] =
                           IF out.err # NoErr
                           THEN PathPageFailed(call, out.err)
                           ELSE PathPageFetched(call, out)]
    /\ UNCHANGED store

(***************************************************************************)
(* Collect: one GetParameters request.                                     *)
(***************************************************************************)
\* the skip of empty names inverted: only empty names are kept
NonEmpty_Inverted(names) ==
    LET empty(n) == n = EmptyKey IN SelectSeq(names, empty)

RECURSIVE NonEmpty(_)
NonEmpty(names) ==
    IF names = <<>> THEN <<>>
    ELSE IF Head(names) = EmptyKey THEN NonEmpty(Tail(names))
    ELSE <<Head(names)>> \o NonEmpty(Tail(names))

CollectCall(c, keys) ==
    /\ cl[c].pc \in Resting
    /\ LET call == [IdleCall EXCEPT !.op = "Collect", !.keys = keys]
       IN IF Len(keys) = 0
          THEN cl' = [cl EXCEPT ![c] =
                         Returned(call, "",
                             failureSystem("keys must have at least one key"))]
          ELSE \E out \in GetParametersReplies(keys) :
                 LET sent == [call EXCEPT !.reqs =
                                 <<Request("GetParameters", keys, <<>>, out)>>]
                 IN cl' = [cl EXCEPT ![c] =
                              IF out.err # NoErr
                              THEN Returned(sent, "",
                                       failureToSystem(out.err,
                                           "c.api.GetParametersWithContext failed"))
                              ELSE Returned(
                                       [sent EXCEPT
                                           !.resmap = Collected(EmptyMap, out.Parameters),
                                           !.invalid = NonEmpty(out.InvalidParameters)],
                                       "", NoErr)]
    /\ UNCHANGED store

Next ==
    /\ \E c \in Solo :
        \/ \E key \in InputKeys : ParamCall(c, key)
        \/ \E key \in InputKeys : DeleteCall(c, key)
        \/ DeleteStep(c)
        \/ \E key \in InputKeys, value \in Values, overwrite \in OverwriteArgs :
               PutCall(c, key, value, overwrite)
        \/ PutStep(c)
        \/ \E path \in PathArgs, recursive \in RecursiveArgs :
               PathCall(c, path, recursive)
        \/ PathLoop(c)
        \/ \E keys \in KeyLists : CollectCall(c, keys)
    /\ UNCHANGED lt

Spec == Init /\ [][Next]_vars

(***************************************************************************)
(* Package sls: LambdaTrigger and ToLambdaTrigger.  Trigger names and the  *)
(* strings converted are sequences of one-character strings.               *)
(***************************************************************************)
APIGWTrigger == <<"a", "p", "i", "g", "w">>
DDBTrigger == <<"d", "d", "b">>
DirectTrigger == <<"d", "i", "r", "e", "c", "t">>
CognitoTrigger == <<"c", "o", "g", "n", "i", "t", "o">>
S3Trigger == <<"s", "3">>
SNSTrigger == <<"s", "n", "s">>
SQSTrigger == <<"s", "q", "s">>

LowerLetters ==
    <<"a", "b", "c", "d", "e", "f", "g", "h", "i", "j", "k", "l", "m",
      "n", "o", "p", "q", "r", "s", "t", "u", "v", "w", "x", "y", "z">>

UpperLetters ==
    <<"A", "B", "C", "D", "E", "F", "G", "H", "I", "J", "K", "L", "M",
      "N", "O", "P", "Q", "R", "S", "T", "U", "V", "W", "X", "Y", "Z">>

ToLowerChar(ch) ==
    IF \E i \in 1..Len(UpperLetters) : UpperLetters[i] = ch
    THEN LowerLetters[CHOOSE i \in 1..Len(UpperLetters) : UpperLetters[i] = ch]
    ELSE ch

ToUpperChar(ch) ==
    IF \E i \in 1..Len(LowerLetters) : LowerLetters[i] = ch
    THEN UpperLetters[CHOOSE i \in 1..Len(LowerLetters) : LowerLetters[i] = ch]
    ELSE ch

\* the switch on s itself, without strings.ToLower
ToLower_Forgotten(s) == s

\* strings.ToLower
ToLower(s) == [i \in 1..Len(s) |-> ToLowerChar(s[i])]

\* the switch of ToLambdaTrigger: t stays the empty trigger in the default case
ToLambdaTrigger(s) ==
    LET low == ToLower(s)
        found(t) == [t |-> t, err |-> NoErr]
    IN CASE low = APIGWTrigger -> found(APIGWTrigger)
         [] low = DDBTrigger -> found(DDBTrigger)
         [] low = DirectTrigger -> found(DirectTrigger)
         [] low = CognitoTrigger -> found(CognitoTrigger)
         [] low = S3Trigger -> found(S3Trigger)
         [] low = SNSTrigger -> found(SNSTrigger)
         [] low = SQSTrigger -> found(SQSTrigger)
         [] OTHER -> [t |-> <<>>, err |-> <<"event trigger () is not registered">>]

\* every spelling of a name in upper and lower case
RECURSIVE Spellings(_)
Spellings(name) ==
    IF name = <<>> THEN {<<>>}
    ELSE {<<h>> \o rest : h \in {Head(name), ToUpperChar(Head(name))},
                          rest \in Spellings(Tail(name))}

\* strings that name no trigger
Unregistered ==
    { <<>>, <<"c", "o", "g">>, <<"s">>, <<"s", "3", "3">>, <<"s", "q", "s", " ">>,
      <<" ", "s", "3">>, <<"a", "p", "i">>, <<"d", "b">>, <<"s", "e", "s">> }

TriggerInputs ==
    UNION {Spellings(name) :
              name \in {APIGWTrigger, DDBTrigger, DirectTrigger, CognitoTrigger,
                        S3Trigger, SNSTrigger, SQSTrigger} \cup Unregistered}

ToLambdaTriggerCall(s) ==
    /\ lt' = [called |-> TRUE, s |-> s,
              t |-> ToLambdaTrigger(s).t, err |-> ToLambdaTrigger(s).err]
    /\ UNCHANGED <<store, cl>>

InitTrigger ==
    /\ store = [k \in Keys |-> Absent]
    /\ cl = [c \in Clients |-> IdleCall]
    /\ lt = NoConversion

NextTrigger == \E s \in TriggerInputs : ToLambdaTriggerCall(s)

SpecTrigger == InitTrigger /\ [][NextTrigger]_vars

(***************************************************************************)
(* Two clients putting and deleting the same key, their requests           *)
(* interleaved in every order.                                             *)
(***************************************************************************)
SharedKey == KeyUniverse[1]

InitShared ==
    /\ store \in {s \in [Keys -> StoredValues \cup {Absent}] :
                     \A k \in Keys \ {SharedKey} : s[k] = Absent}
    /\ cl = [c \in Clients |-> IdleCall]
    /\ lt = NoConversion

NextShared ==
    /\ \E c \in Clients :
        \/ \E value \in Values, overwrite \in OverwriteArgs :
               PutCall(c, SharedKey, value, overwrite)
        \/ PutStep(c)
        \/ DeleteCall(c, SharedKey)
        \/ DeleteStep(c)
    /\ UNCHANGED lt

SpecShared == InitShared /\ [][NextShared]_vars

\* a call that was started runs on to its next request or its return
FairSpec ==
    Spec /\ \A c \in Solo :
               WF_vars((DeleteStep(c) \/ PutStep(c) \/ PathLoop(c)) /\ UNCHANGED lt)

(***************************************************************************)
(* Vocabulary of the properties.                                           *)
(***************************************************************************)
\* client c starts a call of op in this step
Starts(c, op) == cl[c].pc \in Resting /\ cl'[c] # cl[c] /\ cl'[c].op = op

\* the string a read of a stored value yields
ValueOf(stored) == IF stored = Nil THEN "" ELSE stored

Holds(key) == key \in Keys /\ store[key] # Absent

Lacks(key) == key \in Keys /\ store[key] = Absent

\* the i-th request of the call got a reply without error
ReplyOk(call, i) == Len(call.reqs) >= i /\ call.reqs[i].out.err = NoErr

ReplyNotFound(call, i) ==
    Len(call.reqs) >= i /\ IsParameterNotFound(call.reqs[i].out.err)

Issued(call, api) == \E i \in 1..Len(call.reqs) : call.reqs[i].api = api

(***************************************************************************)
(* C1: Put(key, v2) without overwrite on a key the store holds with a      *)
(* value v1 # v2 (an empty v1 included), the read having succeeded,        *)
(* returns at once with an error of kind Conflict, issues no PutParameter  *)
(* and leaves the store as it was.                                         *)
(***************************************************************************)
C1_PutWithoutOverwriteConflicts ==
    [][\A c \in Clients :
         ( /\ Starts(c, "Put")
           /\ cl'[c].overwrite \in {<<>>, <<FALSE>>}
           /\ Holds(cl'[c].key)
           /\ ValueOf(store[cl'[c].key]) # cl'[c].value
           /\ ReplyOk(cl'[c], 1) )
         => ( /\ cl'[c].pc = "done"
              /\ failureIsConflict(cl'[c].err)
              /\ ~Issued(cl'[c], "PutParameter")
              /\ store' = store )]_vars

(***************************************************************************)
(* C2: Put(key, v1) on a store that holds key = v1 returns without a       *)
(* PutParameter request and without changing the store, whatever the       *)
(* overwrite flag; when the read got its answer it returns (v1, nil).      *)
(***************************************************************************)
C2_PutSameValueIsNoOp ==
    [][\A c \in Clients :
         ( /\ Starts(c, "Put")
           /\ Holds(cl'[c].key)
           /\ ValueOf(store[cl'[c].key]) = cl'[c].value )
         => ( /\ cl'[c].pc = "done"
              /\ ~Issued(cl'[c], "PutParameter")
              /\ store' = store
              /\ ReplyOk(cl'[c], 1)
                    => cl'[c].result = cl'[c].value /\ cl'[c].err = NoErr )]_vars

C2_Witness ==
    \E c \in Clients :
        /\ cl[c].op = "Put" /\ cl[c].pc = "done" /\ cl[c].err = NoErr
        /\ Holds(cl[c].key) /\ store[cl[c].key] = cl[c].value
        /\ cl[c].value = "a" /\ cl[c].result = "a"
        /\ cl[c].overwrite = <<>>
        /\ Len(cl[c].reqs) = 1 /\ ReplyOk(cl[c], 1)

(***************************************************************************)
(* C3: Put(key, v2, true) on a store that holds key = v1 # v2, with no     *)
(* remote failure: the read leads on to the write, and the write returns   *)
(* (v1, nil) and leaves key = v2 and every other key as it was.            *)
(***************************************************************************)
C3_PutOverwriteReplaces ==
    [][\A c \in Clients :
         /\ ( /\ Starts(c, "Put")
              /\ cl'[c].overwrite = <<TRUE>>
              /\ Holds(cl'[c].key)
              /\ ValueOf(store[cl'[c].key]) # cl'[c].value
              /\ ReplyOk(cl'[c], 1) )
            => ( /\ cl'[c].pc = "write"
                 /\ cl'[c].old = ValueOf(store[cl'[c].key])
                 /\ store' = store )
         /\ ( /\ cl[c].op = "Put" /\ cl[c].pc = "write" /\ cl'[c].pc = "done"
              /\ cl[c].overwrite = <<TRUE>>
              /\ Holds(cl[c].key)
              /\ ReplyOk(cl'[c], 2) )
            => ( /\ cl'[c].result = ValueOf(store[cl[c].key])
                 /\ cl'[c].err = NoErr
                 /\ store' = [store EXCEPT ![cl[c].key] = cl[c].value] )]_vars

C3_Witness ==
    \E c \in Clients :
        /\ cl[c].op = "Put" /\ cl[c].pc = "done" /\ cl[c].err = NoErr
        /\ cl[c].overwrite = <<TRUE>>
        /\ cl[c].result = "a" /\ cl[c].value = "b"
        /\ Holds(cl[c].key) /\ store[cl[c].key] = "b"
        /\ Len(cl[c].reqs) = 2 /\ ReplyOk(cl[c], 1) /\ ReplyOk(cl[c], 2)

(***************************************************************************)
(* C4: Put(key, v) on a key whose read reports parameter-not-found goes on *)
(* to the write with "" as the prior value, for every overwrite flag and   *)
(* every v, "" included; the write, when the remote accepts it, returns    *)
(* ("", nil) and creates key = v.                                          *)
(***************************************************************************)
C4_PutCreatesAbsentKey ==
    [][\A c \in Clients :
         /\ ( /\ Starts(c, "Put")
              /\ Lacks(cl'[c].key)
              /\ ReplyNotFound(cl'[c], 1) )
            => ( /\ cl'[c].pc = "write"
                 /\ cl'[c].old = ""
                 /\ store' = store )
         /\ ( /\ cl[c].op = "Put" /\ cl[c].pc = "write" /\ cl'[c].pc = "done"
              /\ Lacks(cl[c].key)
              /\ ReplyNotFound(cl[c], 1)
              /\ ReplyOk(cl'[c], 2) )
            => ( /\ cl'[c].result = ""
                 /\ cl'[c].err = NoErr
                 /\ store' = [store EXCEPT ![cl[c].key] = cl[c].value] )]_vars

C4_Witness ==
    \E c \in Clients :
        /\ cl[c].op = "Put" /\ cl[c].pc = "done" /\ cl[c].err = NoErr
        /\ cl[c].overwrite = <<>>
        /\ cl[c].value = "" /\ cl[c].result = ""
        /\ Holds(cl[c].key) /\ store[cl[c].key] = ""
        /\ Len(cl[c].reqs) = 2 /\ ReplyNotFound(cl[c], 1) /\ ReplyOk(cl[c], 2)

(***************************************************************************)
(* C5: Delete(key) on a key the store holds with value v, with no remote   *)
(* failure: the read leads on to the delete request, which returns         *)
(* (v, nil) and leaves the key absent and every other key as it was; a     *)
(* Param of an absent key that the remote answers fails with NotFound.     *)
(***************************************************************************)
C5_DeleteRemovesAndReturnsOld ==
    [][\A c \in Clients :
         /\ ( /\ Starts(c, "Delete")
              /\ Holds(cl'[c].key)
              /\ ReplyOk(cl'[c], 1) )
            => ( /\ cl'[c].pc = "delete"
                 /\ store' = store )
         /\ ( /\ cl[c].op = "Delete" /\ cl[c].pc = "delete" /\ cl'[c].pc = "done"
              /\ Holds(cl[c].key)
              /\ ReplyOk(cl'[c], 2) )
            => ( /\ cl'[c].result = ValueOf(store[cl[c].key])
                 /\ cl'[c].err = NoErr
                 /\ store' = [store EXCEPT ![cl[c].key] = Absent] )
         /\ ( /\ Starts(c, "Param")
              /\ Lacks(cl'[c].key)
              /\ ReplyNotFound(cl'[c], 1) )
            => failureIsNotFound(cl'[c].err)]_vars

C5_Witness ==
    \E c \in Clients :
        /\ cl[c].op = "Delete" /\ cl[c].pc = "done" /\ cl[c].err = NoErr
        /\ cl[c].result = "a"
        /\ Lacks(cl[c].key)
        /\ Len(cl[c].reqs) = 2 /\ ReplyOk(cl[c], 1) /\ ReplyOk(cl[c], 2)

(***************************************************************************)
(* C6: Delete(key) on a key the store lacks (the read reports              *)
(* parameter-not-found) returns at once with Delete's wrapping of the read *)
(* error, which is still NotFound and not System, issues no                *)
(* DeleteParameter and leaves the store as it was.                         *)
(***************************************************************************)
C6_DeleteAbsentIsNotFound ==
    [][\A c \in Clients :
         ( /\ Starts(c, "Delete")
           /\ Lacks(cl'[c].key)
           /\ ReplyNotFound(cl'[c], 1) )
         => ( /\ cl'[c].pc = "done"
              /\ Head(cl'[c].err) = "c.Param failed"
              /\ failureIsNotFound(cl'[c].err)
              /\ ~failureIsSystem(cl'[c].err)
              /\ ~Issued(cl'[c], "DeleteParameter")
              /\ store' = store )]_vars

C6_Witness ==
    \E c \in Clients :
        /\ cl[c].op = "Delete" /\ cl[c].pc = "done"
        /\ Lacks(cl[c].key)
        /\ failureIsNotFound(cl[c].err)
        /\ Len(cl[c].err) > 2
        /\ Len(cl[c].reqs) = 1 /\ ReplyNotFound(cl[c], 1)

(***************************************************************************)
(* C7: a Param that returned failed with NotFound exactly when its         *)
(* GetParameter request was answered parameter-not-found, with System (and *)
(* not NotFound) for every other failed request, with no error when the    *)
(* request succeeded, and with the empty result whenever it failed.        *)
(***************************************************************************)
C7_ParamClassifiesFailures ==
    \A c \in Clients :
        (cl[c].op = "Param" /\ cl[c].pc = "done")
        => ( /\ failureIsNotFound(cl[c].err) <=> ReplyNotFound(cl[c], 1)
             /\ (Len(cl[c].reqs) = 1 /\ ~ReplyOk(cl[c], 1) /\ ~ReplyNotFound(cl[c], 1))
                   => failureIsSystem(cl[c].err)
             /\ ~(failureIsNotFound(cl[c].err) /\ failureIsSystem(cl[c].err))
             /\ cl[c].err # NoErr
                   => failureIsNotFound(cl[c].err) \/ failureIsSystem(cl[c].err)
             /\ ReplyOk(cl[c], 1) => cl[c].err = NoErr
             /\ cl[c].err # NoErr => cl[c].result = "" )

C7_Witness ==
    \E c \in Clients :
        /\ cl[c].op = "Param" /\ cl[c].pc = "done"
        /\ Lacks(cl[c].key)
        /\ failureIsNotFound(cl[c].err)
        /\ ReplyNotFound(cl[c], 1)

C7_WitnessSystem ==
    \E c \in Clients :
        /\ cl[c].op = "Param" /\ cl[c].pc = "done"
        /\ Len(cl[c].reqs) = 1 /\ cl[c].reqs[1].out.err = <<"InternalServerError">>
        /\ failureIsSystem(cl[c].err)

(***************************************************************************)
(* C8: a Path call one of whose page fetches failed does not abort: it     *)
(* goes on or returns, its map holds every parameter (name and value set)  *)
(* of the pages it fetched, and the error it returns is nil.               *)
(***************************************************************************)
PageFailed(call) == \E i \in 1..Len(call.reqs) : call.reqs[i].out.err # NoErr

HoldsPage(resmap, parameters) ==
    \A i \in 1..Len(parameters) :
        (parameters[i].Name # Nil /\ parameters[i].Value # Nil)
        => ( /\ parameters[i].Name \in DOMAIN resmap
             /\ resmap[parameters[i].Name] = parameters[i].Value )

C8_PathSurvivesPageFailure ==
    \A c \in Clients :
        (cl[c].op = "Path" /\ PageFailed(cl[c]))
        => ( /\ cl[c].pc \in {"paging", "done"}
             /\ cl[c].pc = "done" => cl[c].err = NoErr
             /\ \A i \in 1..Len(cl[c].reqs) :
                   ReplyOk(cl[c], i)
                   => HoldsPage(cl[c].resmap, cl[c].reqs[i].out.Parameters) )

(***************************************************************************)
(* C9: with no page failure, Path requests the first page without a token  *)
(* and every further page with the token the page before it returned,      *)
(* never the same token twice and never more pages than there are          *)
(* parameters under the path; it returns when a page comes without a next  *)
(* token, with nil error and the map of exactly the names the store holds  *)
(* under the path with a value set, each with its stored value.            *)
(***************************************************************************)
UnderPath(call) ==
    {k \in Keys : store[k] # Absent /\ Under(call.path, k, call.recursive # <<FALSE>>)}

ExpectedMap(call) ==
    [k \in {n \in UnderPath(call) : store[n] # Nil} |-> store[k]]

Offset(token) == IF token = <<>> THEN 0 ELSE token[1]

C9_PathPagesOnceInOrder ==
    \A c \in Clients :
        (cl[c].op = "Path" /\ cl[c].path # <<>> /\ ~PageFailed(cl[c]))
        => LET reqs == cl[c].reqs
           IN /\ cl[c].pc \in {"paging", "done"}
              /\ \A i \in 1..Len(reqs) :
                    /\ reqs[i].api = "GetParametersByPath"
                    /\ reqs[i].name = cl[c].path
                    /\ reqs[i].arg = IF i = 1 THEN <<>> ELSE reqs[i - 1].out.NextToken
                    /\ i > 1 => Offset(reqs[i - 1].arg) < Offset(reqs[i].arg)
              /\ Len(reqs) <= IF UnderPath(cl[c]) = {} THEN 1
                              ELSE Cardinality(UnderPath(cl[c]))
              /\ cl[c].pc = "done"
                    => /\ Len(reqs) >= 1
                       /\ reqs[Len(reqs)].out.NextToken = <<>>
                       /\ cl[c].err = NoErr
                       /\ cl[c].resmap = ExpectedMap(cl[c])

C9_Witness ==
    \E c \in Clients :
        /\ cl[c].op = "Path" /\ cl[c].pc = "done" /\ cl[c].err = NoErr
        /\ Len(cl[c].reqs) = 2
        /\ ~PageFailed(cl[c])
        /\ Cardinality(DOMAIN cl[c].resmap) = 1
        /\ Cardinality(UnderPath(cl[c])) = 2

(***************************************************************************)
(* C10: no call issues again a request that failed; Param and Collect      *)
(* issue one request (none for an empty argument), Delete and Put one      *)
(* GetParameter (none for an empty key) and after it at most one           *)
(* DeleteParameter or PutParameter, and Path nothing after a failed page;  *)
(* and every call that was started comes to its end, returning or, for a   *)
(* Path whose page failed, panicking, whatever the remote answers.         *)
(***************************************************************************)
SameRequest(r, q) == r.api = q.api /\ r.name = q.name /\ r.arg = q.arg

NoRetry(call) ==
    \A i \in 1..Len(call.reqs) : \A j \in 1..Len(call.reqs) :
        (i < j /\ call.reqs[i].out.err # NoErr)
        => ~SameRequest(call.reqs[i], call.reqs[j])

RequestsOf(call) == [i \in 1..Len(call.reqs) |-> call.reqs[i].api]

RequestShape(call) ==
    /\ call.op = "Param"
          => RequestsOf(call) = IF call.key = EmptyKey THEN <<>> ELSE <<"GetParameter">>
    /\ call.op = "Collect"
          => RequestsOf(call) = IF call.keys = <<>> THEN <<>> ELSE <<"GetParameters">>
    /\ call.op = "Delete"
          => /\ RequestsOf(call) \in
                   {<<>>, <<"GetParameter">>, <<"GetParameter", "DeleteParameter">>}
             /\ call.key # EmptyKey => Len(call.reqs) >= 1
    /\ call.op = "Put"
          => /\ RequestsOf(call) \in
                   {<<>>, <<"GetParameter">>, <<"GetParameter", "PutParameter">>}
             /\ call.key # EmptyKey => Len(call.reqs) >= 1
    /\ call.op = "Path"
          => \A i \in 1..Len(call.reqs) :
                call.reqs[i].out.err # NoErr => i = Len(call.reqs)

C10_NoRetriesAndTermination ==
    /\ [](\A c \in Clients : NoRetry(cl[c]) /\ RequestShape(cl[c]))
    /\ \A c \in Clients : (cl[c].pc \notin Resting) ~> (cl[c].pc \in Resting)

C10_Witness ==
    \E c \in Clients :
        /\ cl[c].op = "Path" /\ cl[c].pc = "panic"
        /\ Len(cl[c].reqs) = 2
        /\ ReplyOk(cl[c], 1) /\ ~ReplyOk(cl[c], 2)

(***************************************************************************)
(* C11: a call with an empty required argument, Param(""), Path("") or     *)
(* Collect(), returns an error of kind InvalidInput and issues no request. *)
(***************************************************************************)
EmptyArgument(call) ==
    \/ call.op = "Param" /\ call.key = EmptyKey
    \/ call.op = "Path" /\ call.path = <<>>
    \/ call.op = "Collect" /\ call.keys = <<>>

C11_EmptyArgumentIsInvalidInput ==
    \A c \in Clients :
        (EmptyArgument(cl[c]) /\ cl[c].pc = "done")
        => ( /\ failureIsInvalidInput(cl[c].err)
             /\ cl[c].reqs = <<>> )

(***************************************************************************)
(* C12: Path(p) and Path("/" + p) are the same call to the remote: for     *)
(* every non-empty argument, with or without a leading "/", the path of    *)
(* every request is "/" followed by the argument without its leading "/",  *)
(* and a call that returned without a page failure returns the store's     *)
(* parameters under that path.  The normalised path begins with the one    *)
(* "/" that was found or added, and normalising it again changes nothing.  *)
(***************************************************************************)
WithoutSlash(path) == IF path[1] = "/" THEN Tail(path) ELSE path

Canonical(path) == <<"/">> \o WithoutSlash(path)

StoreUnder(path, recursive) ==
    LET names == {k \in Keys : /\ store[k] \notin {Absent, Nil}
                               /\ Under(path, k, recursive # <<FALSE>>)}
    IN [k \in names |-> store[k]]

C12_LeadingSlashNormalised ==
    \A c \in Clients :
        (cl[c].op = "Path" /\ cl[c].pathArg # <<>>)
        => ( /\ cl[c].path = Canonical(cl[c].pathArg)
             /\ cl[c].path[1] = "/"
             /\ Len(cl[c].path) =
                   Len(cl[c].pathArg) + (IF cl[c].pathArg[1] = "/" THEN 0 ELSE 1)
             /\ EnsurePathPrefix(cl[c].path) = cl[c].path
             /\ \A i \in 1..Len(cl[c].reqs) :
                   cl[c].reqs[i].name = Canonical(cl[c].pathArg)
             /\ (cl[c].pc = "done" /\ ~PageFailed(cl[c]))
                   => cl[c].resmap =
                         StoreUnder(Canonical(cl[c].pathArg), cl[c].recursive) )

C12_Witness ==
    \E c \in Clients :
        /\ cl[c].op = "Path" /\ cl[c].pc = "done" /\ cl[c].err = NoErr
        /\ cl[c].pathArg = <<"a">>
        /\ cl[c].path = <<"/", "a">>
        /\ ~PageFailed(cl[c])
        /\ Cardinality(DOMAIN cl[c].resmap) = 2

(***************************************************************************)
(* C13: a Collect of at least one key that the remote answered issued one  *)
(* GetParameters request, and of the requested keys every one the store    *)
(* knows is in the returned map with its stored value, every one the store *)
(* does not know is in the list of unknown keys, and none is in both.      *)
(***************************************************************************)
Answered(call) ==
    call.op = "Collect" /\ call.pc = "done" /\ call.keys # <<>> /\ ReplyOk(call, 1)

C13_CollectPartitionsKeys ==
    \A c \in Clients :
        Answered(cl[c])
        => ( /\ RequestsOf(cl[c]) = <<"GetParameters">>
             /\ \A k \in Range(cl[c].keys) :
                   /\ Holds(k) => ( /\ k \in DOMAIN cl[c].resmap
                                    /\ cl[c].resmap[k] = store[k] )
                   /\ Lacks(k) => k \in Range(cl[c].invalid)
                   /\ ~(k \in DOMAIN cl[c].resmap /\ k \in Range(cl[c].invalid)) )

(***************************************************************************)
(* C13, amended: as above for the keys the store knows with a value set; a *)
(* requested key the store knows without a value set is in neither the map *)
(* nor the list, and the map and the list hold requested keys only.        *)
(***************************************************************************)
C13_CollectPartitionsValuedKeys ==
    \A c \in Clients :
        Answered(cl[c])
        => ( /\ RequestsOf(cl[c]) = <<"GetParameters">>
             /\ cl[c].err = NoErr
             /\ DOMAIN cl[c].resmap \subseteq Range(cl[c].keys)
             /\ Range(cl[c].invalid) \subseteq Range(cl[c].keys)
             /\ \A k \in Range(cl[c].keys) :
                   /\ (Holds(k) /\ store[k] # Nil)
                         => ( /\ k \in DOMAIN cl[c].resmap
                              /\ cl[c].resmap[k] = store[k]
                              /\ k \notin Range(cl[c].invalid) )
                   /\ (Holds(k) /\ store[k] = Nil)
                         => ( /\ k \notin DOMAIN cl[c].resmap
                              /\ k \notin Range(cl[c].invalid) )
                   /\ Lacks(k)
                         => ( /\ k \in Range(cl[c].invalid)
                              /\ k \notin DOMAIN cl[c].resmap ) )

C13_Witness ==
    \E c \in Clients :
        /\ Answered(cl[c])
        /\ Len(cl[c].keys) = 2
        /\ Cardinality(DOMAIN cl[c].resmap) = 1
        /\ Len(cl[c].invalid) = 1

(***************************************************************************)
(* C14: ToLambdaTrigger(s) returns, for an s that spells one of the seven  *)
(* trigger names in any mix of upper and lower case, the trigger of that   *)
(* name and no error, and for every other s an error and the empty         *)
(* trigger.                                                                *)
(***************************************************************************)
FixedTriggers ==
    {APIGWTrigger, DDBTrigger, DirectTrigger, CognitoTrigger, S3Trigger,
     SNSTrigger, SQSTrigger}

\* s is name up to the case of its letters
Spells(s, name) ==
    /\ Len(s) = Len(name)
    /\ \A i \in 1..Len(s) : s[i] \in {name[i], ToUpperChar(name[i])}

C14_ToLambdaTriggerClosed ==
    /\ Cardinality(FixedTriggers) = 7
    /\ lt.called
          => /\ \A name \in FixedTriggers :
                   Spells(lt.s, name) => (lt.t = name /\ lt.err = NoErr)
             /\ (\A name \in FixedTriggers : ~Spells(lt.s, name))
                   => (lt.err # NoErr /\ lt.t = <<>>)

C14_Witness ==
    /\ lt.called
    /\ lt.s = <<"D", "i", "R", "e", "c", "T">>
    /\ lt.t = DirectTrigger
    /\ lt.err = NoErr

C14_WitnessUnregistered ==
    /\ lt.called
    /\ lt.s = <<"S", "3", "3">>
    /\ lt.err # NoErr

(***************************************************************************)
(* C15: the Cognito trigger is named "cog": ToLambdaTrigger("cog") returns *)
(* the Cognito trigger, whose String() is "cog", and no error.             *)
(***************************************************************************)
C15_CognitoTriggerIsCog ==
    (lt.called /\ lt.s = <<"c", "o", "g">>)
    => ( /\ lt.err = NoErr
         /\ lt.t = CognitoTrigger
         /\ lt.t = <<"c", "o", "g">> )

(***************************************************************************)
(* C16: under every interleaving of two clients, the write of a Put        *)
(* without overwrite is sent with Overwrite false; it takes effect only on *)
(* a key the store lacks, and on a key the store holds (another client's   *)
(* write came first) it returns an error and leaves the stored value.      *)
(***************************************************************************)
\* client c gets the reply to its PutParameter in this step
Writes(c) == cl[c].op = "Put" /\ cl[c].pc = "write" /\ cl'[c].pc = "done"

C16_PutWithoutOverwriteNeverReplaces ==
    [][\A c \in Clients :
         (Writes(c) /\ cl[c].overwrite # <<TRUE>>)
         => ( /\ cl'[c].reqs[2].arg = <<cl[c].value, FALSE>>
              /\ store[cl[c].key] # Absent
                    => (cl'[c].err # NoErr /\ store' = store)
              /\ store' # store
                    => ( /\ store[cl[c].key] = Absent
                         /\ cl'[c].err = NoErr
                         /\ store' = [store EXCEPT ![cl[c].key] = cl[c].value] ) )]_vars

C16_Witness ==
    /\ cl["c1"].op = "Put" /\ cl["c2"].op = "Put"
    /\ cl["c1"].pc = "done" /\ cl["c2"].pc = "done"
    /\ cl["c1"].overwrite = <<>> /\ cl["c2"].overwrite = <<FALSE>>
    /\ cl["c1"].value = "a" /\ cl["c2"].value = "b"
    /\ ReplyNotFound(cl["c1"], 1) /\ ReplyNotFound(cl["c2"], 1)
    /\ ReplyOk(cl["c1"], 2)
    /\ Len(cl["c2"].reqs) = 2
    /\ cl["c2"].reqs[2].out.err = <<"ParameterAlreadyExists">>
    /\ cl["c1"].err = NoErr /\ failureIsSystem(cl["c2"].err)
    /\ store[SharedKey] = "a"

(***************************************************************************)
(* C17: under every interleaving of two clients on the same key, the value *)
(* a successful Put or Delete returns is the value the store held for the  *)
(* key just before that call's own write or delete took effect.            *)
(***************************************************************************)
\* what a caller is told of a stored value: "" for none
PriorOf(stored) == IF stored \in {Absent, Nil} THEN "" ELSE stored

\* client c gets the reply to its PutParameter or DeleteParameter in this step
Completes(c) ==
    /\ cl[c].op \in {"Put", "Delete"}
    /\ cl[c].pc \in {"write", "delete"}
    /\ cl'[c].pc = "done"

C17_PriorValueIsValueBeforeWrite ==
    [][\A c \in Clients :
         (Completes(c) /\ ReplyOk(cl'[c], 2))
         => cl'[c].result = PriorOf(store[cl[c].key])]_vars

(***************************************************************************)
(* C17, amended: the value a successful Put or Delete returns is the value *)
(* the store held for the key when the call's own read was answered; a     *)
(* write of another client between that read and the call's write or       *)
(* delete is not observed.                                                 *)
(***************************************************************************)
C17_PriorValueIsValueRead ==
    [][\A c \in Clients :
         /\ ( /\ Starts(c, "Put") \/ Starts(c, "Delete")
              /\ cl'[c].key \in Keys
              /\ ReplyOk(cl'[c], 1) \/ ReplyNotFound(cl'[c], 1) )
            => cl'[c].old = PriorOf(store[cl'[c].key])
         /\ (Completes(c) /\ ReplyOk(cl'[c], 2))
            => ( /\ cl'[c].result = cl[c].old
                 /\ cl'[c].err = NoErr )]_vars

C17_Witness ==
    /\ cl["c1"].op = "Put" /\ cl["c2"].op = "Put"
    /\ cl["c1"].pc = "done" /\ cl["c2"].pc = "done"
    /\ cl["c1"].err = NoErr /\ cl["c2"].err = NoErr
    /\ ReplyOk(cl["c1"], 2) /\ ReplyOk(cl["c2"], 2)
    /\ cl["c1"].value = "b" /\ cl["c2"].value = ""
    /\ cl["c1"].result = "a" /\ cl["c2"].result = "a"
    /\ store[SharedKey] = ""

(***************************************************************************)
(* C18: a Put whose read failed with anything but NotFound (the rejection  *)
(* of an empty key included) returns at once with that error wrapped,      *)
(* issues no PutParameter and leaves the store as it was; a Put whose      *)
(* PutParameter failed returns a System error with the value it read, and  *)
(* leaves the store as it was.                                             *)
(***************************************************************************)
\* the error Param gives for the reply logged as the call's first request
ReadErrorOf(call) ==
    IF call.key = EmptyKey
    THEN <<"key is empty, a non empty key is required", "System">>
    ELSE <<"c.api.GetParameter failed", "System">>

ReadFailedOtherwise(call) ==
    \/ call.key = EmptyKey
    \/ Len(call.reqs) >= 1 /\ ~ReplyOk(call, 1) /\ ~ReplyNotFound(call, 1)

C18_PutStopsOnReadFailure ==
    [][\A c \in Clients :
         /\ (Starts(c, "Put") /\ ReadFailedOtherwise(cl'[c]))
            => ( /\ cl'[c].pc = "done"
                 /\ cl'[c].err = <<"c.Param failed">> \o ReadErrorOf(cl'[c])
                 /\ ~failureIsNotFound(cl'[c].err)
                 /\ ~Issued(cl'[c], "PutParameter")
                 /\ store' = store )
         /\ (Starts(c, "Put") /\ ReplyNotFound(cl'[c], 1))
            => cl'[c].pc = "write"
         /\ (Writes(c) /\ ~ReplyOk(cl'[c], 2))
            => ( /\ failureIsSystem(cl'[c].err)
                 /\ cl'[c].result = cl[c].old
                 /\ store' = store )]_vars

C18_Witness ==
    \E c \in Clients :
        /\ cl[c].op = "Put" /\ cl[c].pc = "done"
        /\ cl[c].key \in Keys
        /\ Len(cl[c].reqs) = 1
        /\ cl[c].reqs[1].out.err = <<"InternalServerError">>
        /\ failureIsSystem(cl[c].err)
        /\ Lacks(cl[c].key)

C18_WitnessWriteFailed ==
    \E c \in Clients :
        /\ cl[c].op = "Put" /\ cl[c].pc = "done"
        /\ Len(cl[c].reqs) = 2
        /\ cl[c].reqs[2].out.err = <<"InternalServerError">>
        /\ failureIsSystem(cl[c].err)
        /\ cl[c].result = "a"

====
